---- MODULE Spec2Model ----
(***************************************************************************)
(* Kinematic chain engine of ik_creatures_v2 (src/src/ik.rs): the node     *)
(* store, forward kinematics (process_fk) and the FABRIK solver (fabrik).  *)
(*                                                                         *)
(* Numbers.  The program computes in f32.  Here every f32 is a fixed-point *)
(* integer: a length is a whole number of 1/Unit length units, an angle a  *)
(* whole number of steps of 10 degrees (TAU = 36 steps), so that PI, TAU   *)
(* and every angle constant of the program (40, 50, 90, 180, 360 degrees)  *)
(* are exact.  cos and sin come from a table scaled by TrigScale, atan2    *)
(* is the nearest step.  Directions along the axes are exact.              *)
(***************************************************************************)
EXTENDS Integers, Sequences, FiniteSets, TLC

(***************************************************************************)
(* Bounds of the model                                                     *)
(***************************************************************************)
MaxNodes == 3        \* nodes the driver inserts into one store
MaxCycles == 2       \* cycle budgets 0..MaxCycles (and the demos' budget)
MaxCalls == 2        \* solver calls in one run
MaxFrames == 5       \* frames the application runs
MaxInserts == 4      \* nodes inserted into one store by direct calls of the store
MaxTurns == 2        \* angles given to the library run from -MaxTurns to MaxTurns turns

(***************************************************************************)
(* Fixed point                                                             *)
(***************************************************************************)
Unit == 10
PI == 18
TAU == 2 * PI
TrigScale == 1000
\* sin of 0, 10, ..., 90 degrees, times TrigScale
SinTable == <<0, 174, 342, 500, 643, 766, 866, 940, 985, 1000>>

Abs(a) == IF a < 0 THEN -a ELSE a

\* a / b rounded to the nearest integer, halves away from zero (b > 0)
Rnd(a, b) == IF a >= 0 THEN (2 * a + b) \div (2 * b) ELSE -((2 * (-a) + b) \div (2 * b))

Sin(a) ==
    LET r == a % TAU
        q == PI \div 2
    IN  IF r <= q THEN SinTable[r + 1]
        ELSE IF r <= PI THEN SinTable[PI - r + 1]
        ELSE IF r <= PI + q THEN -SinTable[r - PI + 1]
        ELSE -SinTable[TAU - r + 1]

Cos(a) == Sin(a + PI \div 2)

(***************************************************************************)
(* glam::Vec2                                                              *)
(***************************************************************************)
Vec2(x, y) == [x |-> x, y |-> y]
ZERO == Vec2(0, 0)
VSub(a, b) == Vec2(a.x - b.x, a.y - b.y)
VAdd(a, b) == Vec2(a.x + b.x, a.y + b.y)
Cross(a, b) == a.x * b.y - a.y * b.x
Dot(a, b) == a.x * b.x + a.y * b.y

\* Vec2::from_angle for each step of one turn: the unit vector (cos, sin),
\* scaled by TrigScale
UnitVectors == [k \in 0..(TAU - 1) |-> Vec2(Cos(k), Sin(k))]
from_angle(a) == UnitVectors[a % TAU]

\* the bisector of steps k and k + 1
Bisectors == [k \in 0..(TAU - 1) |-> VAdd(UnitVectors[k], UnitVectors[(k + 1) % TAU])]

\* from_angle(a) * radius, back in length sub-units
Scaled(u, radius) == Vec2(Rnd(u.x * radius, TrigScale), Rnd(u.y * radius, TrigScale))

\* the steps atan2 can give in the quadrant of v
QuadrantSteps(v) ==
    IF v.x > 0 /\ v.y >= 0 THEN 0..(PI \div 2)
    ELSE IF v.x <= 0 /\ v.y > 0 THEN (PI \div 2)..PI
    ELSE IF v.x < 0 /\ v.y <= 0 THEN ((1 - PI)..(-(PI \div 2))) \cup {PI}
    ELSE (-(PI \div 2))..0

\* Vec2::to_angle = atan2(y, x) in (-PI, PI], atan2(0, 0) = 0: the step k whose
\* sector, bounded by the bisectors of steps k-1,k and k,k+1, holds v.
\* (f32 atan2 gives -PI only for y = -0.0, which no subtraction here produces.)
to_angle(v) ==
    IF v = ZERO THEN 0
    ELSE CHOOSE k \in QuadrantSteps(v) :
            /\ Cross(Bisectors[(k - 1) % TAU], v) >= 0
            /\ Cross(Bisectors[k % TAU], v) < 0

RECURSIVE ISqrtBetween(_, _, _)
ISqrtBetween(n, lo, hi) ==
    IF lo >= hi THEN lo
    ELSE LET mid == (lo + hi + 1) \div 2
         IN  IF mid * mid <= n THEN ISqrtBetween(n, mid, hi) ELSE ISqrtBetween(n, lo, mid - 1)

\* Vec2::length, rounded down to a whole sub-unit
Length(v) == ISqrtBetween(Dot(v, v), 0, Abs(v.x) + Abs(v.y))

(***************************************************************************)
(* Node and its constructor presets                                        *)
(***************************************************************************)
DEFAULT_ANGLE == 4     \* 40 degrees

NodeDefault ==
    [radius |-> 80 * Unit, pos |-> ZERO, rotation |-> 0,
     max_rotation |-> DEFAULT_ANGLE, min_rotation |-> -DEFAULT_ANGLE]

NodeNew(radius) == [NodeDefault EXCEPT !.radius = radius]

NodeLocked(radius, rotation) ==
    [NodeDefault EXCEPT !.radius = radius, !.max_rotation = rotation, !.min_rotation = rotation]

\* unlocked left with the default limits
NodeUnlockedDefaultLimits(radius) == [NodeDefault EXCEPT !.radius = radius]

NodeUnlocked(radius) ==
    [NodeDefault EXCEPT !.radius = radius, !.max_rotation = TAU, !.min_rotation = -TAU]

\* Node::angle: limits -|angle| and |angle|
NodeAngle(radius, angle) ==
    [NodeDefault EXCEPT !.radius = radius, !.max_rotation = Abs(angle), !.min_rotation = -Abs(angle)]

NodeAngles(radius, min, max) ==
    [NodeDefault EXCEPT !.radius = radius, !.max_rotation = max, !.min_rotation = min]

\* the root IKSubstate::new builds: radius 40, turned by -90 degrees
IkDemoRoot == [NodeDefault EXCEPT !.radius = 40 * Unit, !.rotation = -(PI \div 2)]

\* n copies of node
Repeat(node, n) == [i \in 1..n |-> node]

\* the chains of n nodes the driver builds: unlocked nodes of one radius,
\* unlocked nodes behind a smaller root, the IK demo's chain and the FK demo's
Chains(n) ==
    {Repeat(NodeUnlocked(50 * Unit), n),
     <<NodeUnlocked(30 * Unit)>> \o Repeat(NodeUnlocked(50 * Unit), n - 1),
     <<IkDemoRoot>> \o Repeat(NodeNew(40 * Unit), n - 1),
     Repeat(NodeNew(50 * Unit), n)}

\* the first n nodes of a creature's limb chain: the body node it hangs on,
\* the joint locked at a right angle to one side, then the limb's segments
LimbChain(n, side) ==
    SubSeq(<<NodeNew(50 * Unit), NodeLocked(20 * Unit, side * (PI \div 2))>>
               \o Repeat(IF side > 0 THEN NodeAngles(50 * Unit, -5, PI)
                                     ELSE NodeAngles(50 * Unit, -PI, 5), n),
           1, n)

\* the chains of n nodes of the FK and creature scenes
FkChains(n) ==
    {Repeat(NodeNew(50 * Unit), n),
     Repeat(NodeUnlocked(20 * Unit), n),
     LimbChain(n, 1),
     LimbChain(n, -1)}

(***************************************************************************)
(* Angle utilities and the two attach rules                                *)
(***************************************************************************)
\* angle_diff wrapping a difference of exactly pi as well
angle_diffWrapsAtPi(a, b) ==
    LET d == a - b
    IN  IF d >= PI THEN d - TAU
        ELSE IF d < -PI THEN d + TAU
        ELSE d

angle_diff(a, b) ==
    LET d == a - b
    IN  IF d > PI THEN d - TAU
        ELSE IF d < -PI THEN d + TAU
        ELSE d

\* f32 %: the remainder takes the sign of the dividend
Rem(x, m) == IF x >= 0 THEN x % m ELSE -((-x) % m)

_wrap_angle(angle) == Rem(angle + PI, TAU) - PI

\* clamp without its lower limit
ClampUpperOnly(x, min, max) == IF x > max THEN max ELSE x

\* f32::clamp (every node the scenes build has min <= max, so its assertion holds)
Clamp(x, min, max) == IF x < min THEN min ELSE IF x > max THEN max ELSE x

\* attach_node_rotations laying the child at its own radius from the parent
attach_node_rotationsChildRadius(parent, child) ==
    LET direction_vector == VSub(parent.pos, child.pos)
        raw == to_angle(direction_vector)
        rotation_diff == Clamp(angle_diff(raw, parent.rotation),
                               child.min_rotation, child.max_rotation)
        rotation == parent.rotation + rotation_diff
    IN  [child EXCEPT !.rotation = rotation,
                      !.pos = VSub(parent.pos, Scaled(from_angle(rotation), child.radius))]

\* attach_node_rotations taking the direction from the parent to the child
attach_node_rotationsFromParent(parent, child) ==
    LET direction_vector == VSub(child.pos, parent.pos)
        raw == to_angle(direction_vector)
        rotation_diff == Clamp(angle_diff(raw, parent.rotation),
                               child.min_rotation, child.max_rotation)
        rotation == parent.rotation + rotation_diff
    IN  [child EXCEPT !.rotation = rotation,
                      !.pos = VSub(parent.pos, Scaled(from_angle(rotation), parent.radius))]

attach_node_rotations(parent, child) ==
    LET direction_vector == VSub(parent.pos, child.pos)
        raw == to_angle(direction_vector)
        rotation_diff == Clamp(angle_diff(raw, parent.rotation),
                               child.min_rotation, child.max_rotation)
        rotation == parent.rotation + rotation_diff
    IN  [child EXCEPT !.rotation = rotation,
                      !.pos = VSub(parent.pos, Scaled(from_angle(rotation), parent.radius))]

\* attach_node handing the parent's radius to the child
attach_nodeCopyRadius(parent, child) ==
    LET direction_vector == VSub(parent.pos, child.pos)
    IN  [child EXCEPT !.rotation = to_angle(direction_vector),
                      !.radius = parent.radius,
                      !.pos = VSub(parent.pos, Scaled(from_angle(to_angle(direction_vector)), parent.radius))]

attach_node(parent, child) ==
    LET direction_vector == VSub(parent.pos, child.pos)
        rotation == to_angle(direction_vector)
    IN  [child EXCEPT !.rotation = rotation,
                      !.pos = VSub(parent.pos, Scaled(from_angle(rotation), parent.radius))]

(***************************************************************************)
(* NodeManager: current_id and the map nodes from NodeID to Node           *)
(***************************************************************************)
\* insert that leaves the counter where it was
insertKeepingCounter(store, node) ==
    [id |-> store.current_id,
     store |-> [current_id |-> store.current_id,
                nodes |-> [i \in DOMAIN store.nodes \cup {store.current_id} |->
                              IF i = store.current_id THEN node ELSE store.nodes[i]]]]

\* NodeManager::insert on the store [current_id, nodes]: the id given and the store after
insert(store, node) ==
    [id |-> store.current_id,
     store |-> [current_id |-> store.current_id + 1,
                nodes |-> [i \in DOMAIN store.nodes \cup {store.current_id} |->
                              IF i = store.current_id THEN node ELSE store.nodes[i]]]]

RECURSIVE insert_nodesLastFirst(_, _)
\* insert_nodes collecting the ids last to first
insert_nodesLastFirst(store, batch) ==
    IF batch = <<>> THEN [ids |-> <<>>, store |-> store]
    ELSE LET first == insert(store, Head(batch))
             rest == insert_nodesLastFirst(first.store, Tail(batch))
         IN  [ids |-> rest.ids \o <<first.id>>, store |-> rest.store]

RECURSIVE insert_nodes(_, _)
\* NodeManager::insert_nodes: insert mapped over the slice, ids in input order
insert_nodes(store, batch) ==
    IF batch = <<>> THEN [ids |-> <<>>, store |-> store]
    ELSE LET first == insert(store, Head(batch))
             rest == insert_nodes(first.store, Tail(batch))
         IN  [ids |-> <<first.id>> \o rest.ids, store |-> rest.store]

\* get_node answering with the node inserted last
get_nodeNewest(store, id) ==
    IF id \in DOMAIN store.nodes THEN <<store.nodes[store.current_id - 1]>> ELSE <<>>

\* NodeManager::get_node, and get_node_mut as far as what it returns: Some(node) or None
get_node(store, id) ==
    IF id \in DOMAIN store.nodes THEN <<store.nodes[id]>> ELSE <<>>

SeqRange(s) == {s[i] : i \in 1..Len(s)}

\* get_nodes_mut handing the nodes back in the order of their keys
get_nodes_mutKeyOrder(ns, node_ids) ==
    LET found == {id \in DOMAIN ns : id \in SeqRange(node_ids)}
    IN  IF Cardinality(found) < Len(node_ids) THEN <<>>
        ELSE [i \in 1..Len(node_ids) |->
                 ns[CHOOSE id \in found : Cardinality({j \in found : j < id}) = i - 1]]

\* NodeManager::get_nodes_mut: the nodes named by node_ids, in that order, or
\* the empty Vec when fewer distinct nodes were found than ids were asked for
get_nodes_mut(ns, node_ids) ==
    LET found == {id \in DOMAIN ns : id \in SeqRange(node_ids)}
    IN  IF Cardinality(found) < Len(node_ids) THEN <<>>
        ELSE [i \in 1..Len(node_ids) |-> ns[node_ids[i]]]

\* what the &mut references leave in the store once the solver has written through them
WriteBack(ns, node_ids, refs) ==
    [id \in DOMAIN ns |->
        IF \E i \in 1..Len(node_ids) : node_ids[i] = id
        THEN refs[CHOOSE i \in 1..Len(node_ids) : node_ids[i] = id]
        ELSE ns[id]]

(***************************************************************************)
(* process_fk                                                              *)
(***************************************************************************)
RECURSIVE FkPass(_, _)
\* (1..fk.nodes.len()).for_each: child at 0-based index, kept here as the
\* 1-based position index + 1
FkPass(refs, index) ==
    IF index > Len(refs) - 1 THEN refs
    ELSE FkPass([refs EXCEPT ![index + 1] = attach_node_rotations(refs[index], refs[index + 1])],
                index + 1)

\* process_fk attaching every child to its parent as the parent was before the pass
process_fkStaleParents(ns, fk) ==
    IF Len(fk.nodes) < 2 THEN [status |-> "returned", nodes |-> ns]
    ELSE LET refs == get_nodes_mut(ns, fk.nodes)
         IN  IF Len(refs) = 0
             THEN [status |-> "panicked", nodes |-> ns]
             ELSE [status |-> "returned",
                   nodes |-> WriteBack(ns, fk.nodes,
                                 [i \in 1..Len(refs) |->
                                     IF i = 1 THEN refs[1]
                                     ELSE attach_node_rotations(refs[i - 1], refs[i])])]

\* process_fk that also attaches the root to its child, as a backward pass would
process_fkRootFollows(ns, fk) ==
    IF Len(fk.nodes) < 2 THEN [status |-> "returned", nodes |-> ns]
    ELSE LET refs == get_nodes_mut(ns, fk.nodes)
         IN  IF Len(refs) = 0
             THEN [status |-> "panicked", nodes |-> ns]
             ELSE [status |-> "returned",
                   nodes |-> WriteBack(ns, fk.nodes,
                                 [FkPass(refs, 1) EXCEPT ![1] = attach_node(refs[2], refs[1])])]

\* process_fk(node_manager, fk): how the call ends and the nodes it leaves
process_fk(ns, fk) ==
    IF Len(fk.nodes) < 2 THEN [status |-> "returned", nodes |-> ns]
    ELSE LET refs == get_nodes_mut(ns, fk.nodes)
         IN  IF Len(refs) = 0
             \* split_at_mut(1) of an empty Vec: "mid > len" panic
             THEN [status |-> "panicked", nodes |-> ns]
             ELSE [status |-> "returned", nodes |-> WriteBack(ns, fk.nodes, FkPass(refs, 1))]

(***************************************************************************)
(* fabrik                                                                  *)
(***************************************************************************)
None == <<>>
Some(v) == <<v>>

RECURSIVE BackwardPass(_, _)
\* (0..count - 1).rev(): the child is refs[index] (1-based), its parent the next node
BackwardPass(refs, index) ==
    IF index < 1 THEN refs
    ELSE BackwardPass([refs EXCEPT ![index] = attach_node(refs[index + 1], refs[index])],
                      index - 1)

RECURSIVE ForwardPass(_, _)
\* (1..count).for_each: the child is refs[index + 1] (1-based), its parent the node before
ForwardPass(refs, index) ==
    IF index > Len(refs) - 1 THEN refs
    ELSE ForwardPass([refs EXCEPT ![index + 1] =
                          attach_node_rotations(refs[index], refs[index + 1])],
                     index + 1)

\* the cycle ending at the root's repin, its forward pass left out
FabrikCycleNoForwardPass(refs, target, anchor, initial_rot) ==
    LET last == Len(refs)
        placed == [refs EXCEPT ![last].pos = target]
        back == BackwardPass(placed, last - 1)
    IN  [back EXCEPT ![1].pos = anchor, ![1].rotation = initial_rot]

\* the cycle without the root's rotation put back
FabrikCycleRootTurned(refs, target, anchor, initial_rot) ==
    LET last == Len(refs)
        placed == [refs EXCEPT ![last].pos = target]
        back == BackwardPass(placed, last - 1)
        pinned == [back EXCEPT ![1].pos = anchor]
    IN  ForwardPass(pinned, 1)

\* the cycle without the root put back on the anchor
FabrikCycleRootLoose(refs, target, anchor, initial_rot) ==
    LET last == Len(refs)
        placed == [refs EXCEPT ![last].pos = target]
        back == BackwardPass(placed, last - 1)
        pinned == [back EXCEPT ![1].rotation = initial_rot]
    IN  ForwardPass(pinned, 1)

\* one pass of the body of `for _ in 0..ik.cycles`, up to the convergence test
FabrikCycle(refs, target, anchor, initial_rot) ==
    LET last == Len(refs)
        placed == [refs EXCEPT ![last].pos = target]
        back == BackwardPass(placed, last - 1)
        pinned == [back EXCEPT ![1].pos = anchor, ![1].rotation = initial_rot]
    IN  ForwardPass(pinned, 1)

\* the convergence test with its comparison turned round
ConvergedInverted(refs, target) == Length(VSub(refs[Len(refs)].pos, target)) > Unit

\* (nodes[last].pos - ik.target).length() < 1.
Converged(refs, target) == Length(VSub(refs[Len(refs)].pos, target)) < Unit

RECURSIVE FabrikLoop(_, _, _, _, _)
\* the for loop, `done` cycles already run: the value returned, the nodes and
\* the number of cycles run
FabrikLoop(refs, ik, anchor, initial_rot, done) ==
    IF done >= ik.cycles THEN [ret |-> FALSE, refs |-> refs, ran |-> done]
    ELSE LET next == FabrikCycle(refs, ik.target, anchor, initial_rot)
         IN  IF Converged(next, ik.target)
             THEN [ret |-> TRUE, refs |-> next, ran |-> done + 1]
             ELSE FabrikLoop(next, ik, anchor, initial_rot, done + 1)

\* the length test let chains of two nodes through
TooShortBelowTwo(chain) == Len(chain.nodes) < 2

\* the length test at the head of fabrik
TooShort(ik) == Len(ik.nodes) < 3

\* fabrik putting the nodes back as they were when the budget runs out
fabrikRestoring(ns, ik) ==
    IF TooShort(ik) THEN [status |-> "returned", ret |-> FALSE, nodes |-> ns, ran |-> 0]
    ELSE LET refs == get_nodes_mut(ns, ik.nodes)
         IN  IF Len(refs) = 0
             THEN [status |-> "panicked", ret |-> FALSE, nodes |-> ns, ran |-> 0]
             ELSE LET initial_rot == refs[1].rotation
                      anchor == IF ik.anchor = None THEN refs[1].pos ELSE ik.anchor[1]
                      out == FabrikLoop(refs, ik, anchor, initial_rot, 0)
                  IN  [status |-> "returned", ret |-> out.ret,
                       nodes |-> IF out.ret THEN WriteBack(ns, ik.nodes, out.refs) ELSE ns,
                       ran |-> out.ran]

\* fabrik(node_manager, ik): how the call ends, the value returned, the nodes
\* it leaves and the cycles it ran
fabrik(ns, ik) ==
    IF TooShort(ik) THEN [status |-> "returned", ret |-> FALSE, nodes |-> ns, ran |-> 0]
    ELSE LET refs == get_nodes_mut(ns, ik.nodes)
         IN  IF Len(refs) = 0
             \* nodes.len() - 1 underflows (a panic in a debug build) and
             \* nodes[0] is out of bounds (a panic in every build)
             THEN [status |-> "panicked", ret |-> FALSE, nodes |-> ns, ran |-> 0]
             ELSE LET initial_rot == refs[1].rotation
                      anchor == IF ik.anchor = None THEN refs[1].pos ELSE ik.anchor[1]
                      out == FabrikLoop(refs, ik, anchor, initial_rot, 0)
                  IN  [status |-> "returned", ret |-> out.ret,
                       nodes |-> WriteBack(ns, ik.nodes, out.refs), ran |-> out.ran]

\* fabrik using up the descriptor's cycle budget
FabrikLeavesSpentBudget(ns, ik) ==
    LET r == fabrik(ns, ik)
    IN  [status |-> r.status, ret |-> r.ret, nodes |-> r.nodes,
         ik |-> [ik EXCEPT !.cycles = @ - r.ran]]

\* fabrik(node_manager: &mut NodeManager, ik: &InverseKinematic): what the call
\* leaves of both its arguments; the descriptor is borrowed shared
FabrikLeaves(ns, ik) ==
    LET r == fabrik(ns, ik)
    IN  [status |-> r.status, ret |-> r.ret, nodes |-> r.nodes, ik |-> ik]

\* process_fk(node_manager: &mut NodeManager, fk: &ForwardKinematic), likewise
ProcessFkLeaves(ns, fk) ==
    LET r == process_fk(ns, fk)
    IN  [status |-> r.status, ret |-> FALSE, nodes |-> r.nodes, ik |-> fk]

(***************************************************************************)
(* State                                                                   *)
(***************************************************************************)
VARIABLES
    current_id,   \* NodeManager.current_id
    nodes,        \* NodeManager.nodes
    ik,           \* the driver's InverseKinematic, NoIk before it is built
    fk,           \* the FK scene: the ForwardKinematic last given to process_fk
                  \* and the scene's prev_mouse_pos
    called,       \* what ran last: "none", "fabrik", "process_fk" or "place_root"
    status,       \* "idle", or how the last call ended: "returned" or "panicked"
    ret,          \* the value the last fabrik call returned
    ran,          \* the cycles the last fabrik call ran
    pre,          \* nodes as they were when what ran last began
    calls,        \* solver calls made as the scene changed
    aimed_from,   \* nodes as they were when the target was last moved
    op,           \* the library function applied on its own: "none" or its name
    args,         \* the arguments it was applied to
    out,          \* what it returned
    issued,       \* the ids the store has returned, oldest first, each with
                  \* the node it was inserted with
    substate,     \* State.substate: "IK", "FK", "Creature" or "Bridge" ("none"
                  \* where the application is not followed)
    limbs,        \* the creature's arm_right, arm_left, leg_right, leg_left
    renderer,     \* Renderer.render_circles and Renderer.render_polygons
    frames,       \* frames the application has run
    switches,     \* calls of State::change_state
    seen          \* what the last frame's update saw as it ran

scene_vars == <<current_id, nodes, ik, fk, called, status, ret, ran, pre, calls, aimed_from>>
lib_vars == <<op, args, out, issued>>
app_vars == <<substate, limbs, renderer, frames, switches, seen>>
vars == <<current_id, nodes, ik, fk, called, status, ret, ran, pre, calls, aimed_from,
          op, args, out, issued, substate, limbs, renderer, frames, switches, seen>>

NoIk == [nodes |-> <<>>, anchor |-> None, target |-> ZERO, cycles |-> 0, built |-> FALSE]
NoFk == [nodes |-> <<>>, prev_mouse_pos |-> ZERO, built |-> FALSE]

(***************************************************************************)
(* What the driver may pass                                                *)
(***************************************************************************)
DemoCycles == 10

Batches == UNION {Chains(n) : n \in 1..MaxNodes}

\* the ids 0, 1, ..., n - 1 in order
Ids(n) == [i \in 1..n |-> i - 1]
Reverse(s) == [i \in 1..Len(s) |-> s[Len(s) + 1 - i]]

\* chains of every length up to MaxNodes, root first, and one with the root last
ChainLists == {Ids(n) : n \in 0..MaxNodes} \cup {Reverse(Ids(MaxNodes))}

IkDemoAnchor == Vec2(0, -100 * Unit)

Anchors == {None, Some(ZERO), Some(IkDemoAnchor)}

CycleBudgets == (0..MaxCycles) \cup {DemoCycles}

\* mouse positions: on the axes within and beyond reach, and off the axes
MousePositions ==
    {Vec2(100 * Unit, 0), Vec2(200 * Unit, 0), Vec2(30 * Unit, 0), Vec2(60 * Unit, 80 * Unit)}

\* where the driver places a root
RootPositions == {Vec2(0, 60 * Unit)}

(***************************************************************************)
(* Init and the actions                                                    *)
(***************************************************************************)
\* a new NodeManager and no scene built
\* Renderer::new: both display layers on
RendererNew == [render_circles |-> TRUE, render_polygons |-> TRUE]

\* the application is not followed
NoApp ==
    /\ substate = "none"
    /\ limbs = <<>>
    /\ renderer = RendererNew
    /\ frames = 0
    /\ switches = 0
    /\ seen = <<>>

NoScene ==
    /\ current_id = 0
    /\ nodes = <<>>
    /\ ik = NoIk
    /\ fk = NoFk
    /\ called = "none"
    /\ status = "idle"
    /\ ret = FALSE
    /\ ran = 0
    /\ pre = <<>>
    /\ calls = 0
    /\ aimed_from = <<>>
    /\ NoApp

Init ==
    /\ NoScene
    /\ op = "none"
    /\ args = <<>>
    /\ out = <<>>
    /\ issued = <<>>

Running == status # "panicked"

\* the driver builds the scene with one NodeManager::insert_nodes
InsertNodes(batch) ==
    /\ Running
    /\ UNCHANGED <<lib_vars, app_vars>>
    /\ current_id = 0
    /\ ~ik.built
    /\ called = "none"
    /\ \E r \in {insert_nodes([current_id |-> current_id, nodes |-> nodes], batch)} :
           /\ current_id' = r.store.current_id
           /\ nodes' = r.store.nodes
    /\ UNCHANGED <<ik, fk, called, status, ret, ran, pre, calls, aimed_from>>

\* the driver builds its chain, as IKSubstate::new does after inserting
NewIk(node_ids, anchor, cycles) ==
    /\ Running
    /\ UNCHANGED <<lib_vars, app_vars>>
    /\ ~ik.built
    /\ called = "none"
    /\ ik' = [nodes |-> node_ids, anchor |-> anchor, target |-> ZERO,
              cycles |-> cycles, built |-> TRUE]
    /\ UNCHANGED <<current_id, nodes, fk, called, status, ret, ran, pre, calls, aimed_from>>

\* a call fabrik(&mut node_manager, &chain)
CallFabrik(chain) ==
    \E r \in {fabrik(nodes, chain)} :
        /\ called' = "fabrik"
        /\ status' = r.status
        /\ ret' = r.ret
        /\ ran' = r.ran
        /\ pre' = nodes
        /\ nodes' = r.nodes
        /\ UNCHANGED <<current_id, fk>>

Fabrik ==
    /\ Running
    /\ UNCHANGED <<lib_vars, app_vars>>
    /\ ik.built
    /\ calls < MaxCalls
    /\ CallFabrik(ik)
    /\ calls' = calls + 1
    /\ UNCHANGED <<ik, aimed_from>>

\* IKSubstate::update: the target follows the mouse, then fabrik
IKUpdate(mouse_pos) ==
    /\ Running
    /\ UNCHANGED <<lib_vars, app_vars>>
    /\ ik.built
    /\ calls < MaxCalls
    /\ ik' = [ik EXCEPT !.target = mouse_pos]
    /\ CallFabrik([ik EXCEPT !.target = mouse_pos])
    /\ calls' = calls + 1
    /\ aimed_from' = IF mouse_pos = ik.target THEN aimed_from ELSE nodes

\* IKSubstate::update in a later frame in which the mouse has not moved
IKUpdateMouseStill ==
    /\ Running
    /\ UNCHANGED <<lib_vars, app_vars>>
    /\ ik.built
    /\ called = "fabrik"
    /\ CallFabrik(ik)
    /\ UNCHANGED <<ik, calls, aimed_from>>

\* the driver places the chain's root: get_node_mut(&ik.nodes[0]).unwrap().pos = pos,
\* as the FK and creature scenes do with the mouse position
PlaceRoot(pos) ==
    /\ Running
    /\ UNCHANGED <<lib_vars, app_vars>>
    /\ ik.built
    /\ calls < MaxCalls
    /\ Len(ik.nodes) >= 1
    /\ ik.nodes[1] \in DOMAIN nodes
    /\ nodes[ik.nodes[1]].pos # pos
    /\ nodes' = [nodes EXCEPT ![ik.nodes[1]].pos = pos]
    /\ called' = "place_root"
    /\ pre' = nodes
    /\ UNCHANGED <<current_id, ik, fk, status, ret, ran, calls, aimed_from>>

\* a call process_fk(&mut node_manager, &chain)
ProcessFk(node_ids) ==
    /\ Running
    /\ UNCHANGED <<lib_vars, app_vars>>
    /\ ~ik.built
    /\ calls < MaxCalls
    /\ ~fk.built
    /\ \E r \in {process_fk(nodes, [nodes |-> node_ids])} :
           /\ fk' = [fk EXCEPT !.nodes = node_ids]
           /\ called' = "process_fk"
           /\ status' = r.status
           /\ pre' = nodes
           /\ nodes' = r.nodes
           /\ calls' = calls + 1
    /\ UNCHANGED <<current_id, ik, ret, ran, aimed_from>>

Build ==
    \E batch \in Batches : InsertNodes(batch)

Next ==
    \/ Build
    \/ \E node_ids \in ChainLists, anchor \in Anchors, cycles \in CycleBudgets :
           NewIk(node_ids, anchor, cycles)
    \/ Fabrik
    \/ \E mouse_pos \in MousePositions : IKUpdate(mouse_pos)
    \/ \E pos \in RootPositions : PlaceRoot(pos)

Spec == Init /\ [][Next]_vars

\* FKSubstate::new after its insert_nodes: the chain is every node inserted
NewFk ==
    /\ Running
    /\ UNCHANGED <<lib_vars, app_vars>>
    /\ ~fk.built
    /\ ~ik.built
    /\ called = "none"
    /\ current_id >= 1
    /\ fk' = [nodes |-> Ids(current_id), prev_mouse_pos |-> ZERO, built |-> TRUE]
    /\ UNCHANGED <<current_id, nodes, ik, called, status, ret, ran, pre, calls, aimed_from>>

\* the root as FKSubstate::update leaves it before process_fk: moved to the
\* mouse, and turned along the mouse's path when the mouse moved by more than 1.0
RootAtMouse(root, mouse_pos, prev_mouse_pos) ==
    LET mouse_delta == VSub(mouse_pos, prev_mouse_pos)
    IN  [root EXCEPT !.pos = mouse_pos,
                     !.rotation = IF Length(mouse_delta) > Unit THEN to_angle(mouse_delta)
                                  ELSE root.rotation]

\* FKSubstate::update
FKUpdate(mouse_pos) ==
    /\ Running
    /\ UNCHANGED <<lib_vars, app_vars>>
    /\ fk.built
    /\ calls < MaxCalls
    /\ \E placed \in {[nodes EXCEPT ![fk.nodes[1]] =
                                    RootAtMouse(@, mouse_pos, fk.prev_mouse_pos)]} :
           \E r \in {process_fk(placed, fk)} :
               /\ pre' = placed
               /\ nodes' = r.nodes
               /\ status' = r.status
    /\ fk' = [fk EXCEPT !.prev_mouse_pos =
                  IF Length(VSub(mouse_pos, @)) > Unit THEN mouse_pos ELSE @]
    /\ called' = "process_fk"
    /\ calls' = calls + 1
    /\ UNCHANGED <<current_id, ik, ret, ran, aimed_from>>

FkBatches == UNION {FkChains(n) : n \in 1..MaxNodes}

\* where the mouse goes in the FK scene
FkMousePositions ==
    {Vec2(100 * Unit, 0), Vec2(-60 * Unit, 0), Vec2(60 * Unit, 80 * Unit),
     Vec2(0, -50 * Unit), Vec2(0, 0)}

\* the FK and creature scenes: chains with limited and locked joints, laid
\* out by process_fk and solved by fabrik
NextFk ==
    \/ \E batch \in FkBatches : InsertNodes(batch)
    \/ \E node_ids \in ChainLists : ProcessFk(node_ids)
    \/ NewFk
    \/ \E mouse_pos \in FkMousePositions : FKUpdate(mouse_pos)
    \/ \E node_ids \in ChainLists, anchor \in Anchors, cycles \in CycleBudgets :
           NewIk(node_ids, anchor, cycles)
    \/ \E mouse_pos \in MousePositions : IKUpdate(mouse_pos)

FkSpec == Init /\ [][NextFk]_vars

\* the IK scene frame after frame: the mouse moves at most MaxCalls times and
\* rests in between, while the frame loop goes on calling update
NextRepeat ==
    \/ Build
    \/ \E node_ids \in ChainLists, anchor \in Anchors, cycles \in CycleBudgets :
           NewIk(node_ids, anchor, cycles)
    \/ \E mouse_pos \in MousePositions : IKUpdate(mouse_pos)
    \/ IKUpdateMouseStill

RepeatSpec == Init /\ [][NextRepeat]_vars

(***************************************************************************)
(* The library's functions applied on their own                            *)
(***************************************************************************)
\* every angle of the grid within MaxTurns turns of zero
Angles == (-MaxTurns * TAU)..(MaxTurns * TAU)

\* where a caller may have put a node
Positions ==
    {ZERO, Vec2(50 * Unit, 0), Vec2(-50 * Unit, 0), Vec2(0, 50 * Unit),
     Vec2(30 * Unit, -40 * Unit), Vec2(-80 * Unit, -60 * Unit)}

\* a parent and a child as a caller may hand them to the attach rules: the
\* parent turned by any angle, the child unlocked, limited or locked
AttachInputs ==
    {[parent |-> [NodeNew(50 * Unit) EXCEPT !.pos = ppos, !.rotation = rotation],
      child |-> [node EXCEPT !.pos = cpos]] :
         ppos \in {ZERO, Vec2(30 * Unit, -40 * Unit)}, rotation \in Angles,
         cpos \in Positions,
         node \in {NodeUnlocked(20 * Unit), NodeNew(40 * Unit),
                   NodeLocked(20 * Unit, PI \div 2)}}

InitAttach ==
    /\ NoScene
    /\ op = "none"
    /\ args \in AttachInputs
    /\ out = <<>>
    /\ issued = <<>>

\* a call attach_node_rotations(&parent, &mut child): out is the child after it
AttachNodeRotations ==
    /\ op = "none"
    /\ op' = "attach_node_rotations"
    /\ out' = attach_node_rotations(args.parent, args.child)
    /\ UNCHANGED <<args, issued>>
    /\ UNCHANGED <<scene_vars, app_vars>>

\* a call attach_node(&parent, &mut child): out is the child after it
AttachNode ==
    /\ op = "none"
    /\ op' = "attach_node"
    /\ out' = attach_node(args.parent, args.child)
    /\ UNCHANGED <<args, issued>>
    /\ UNCHANGED <<scene_vars, app_vars>>

NextAttach == AttachNodeRotations \/ AttachNode

AttachSpec == InitAttach /\ [][NextAttach]_vars

(***************************************************************************)
(* The application: the four scenes, State::change_state and State::update *)
(* The scenes' chains are cut to MaxNodes nodes; a creature's limbs keep   *)
(* their four nodes.                                                       *)
(***************************************************************************)
\* NodeManager::new
EmptyStore == [current_id |-> 0, nodes |-> <<>>]

\* IKSubstate::new
IKSubstateNew(store) ==
    LET r == insert_nodes(store, <<IkDemoRoot>> \o Repeat(NodeNew(40 * Unit), MaxNodes - 1))
    IN  [store |-> r.store,
         ik |-> [nodes |-> r.ids, anchor |-> Some(IkDemoAnchor), target |-> ZERO,
                 cycles |-> DemoCycles, built |-> TRUE],
         fk |-> NoFk, limbs |-> <<>>]

\* FKSubstate::new
FKSubstateNew(store) ==
    LET data == Repeat(NodeNew(50 * Unit), 4) \o Repeat(NodeNew(40 * Unit), 5)
                    \o Repeat(NodeNew(30 * Unit), 6)
        r == insert_nodes(store, SubSeq(data, 1, MaxNodes))
    IN  [store |-> r.store, ik |-> NoIk,
         fk |-> [nodes |-> r.ids, prev_mouse_pos |-> ZERO, built |-> TRUE],
         limbs |-> <<>>]

\* the head of the creature's body: body_nodes[5], the arms' parent, is its
\* second node here, and body_nodes[9], the legs' parent, its third
CreatureBody ==
    SubSeq(<<NodeNew(24 * Unit), NodeNew(50 * Unit), NodeNew(40 * Unit),
             NodeNew(38 * Unit), NodeNew(30 * Unit)>>, 1, MaxNodes)

\* the nodes of a limb: a joint locked at a right angle, then three segments
LimbNodes(side) ==
    <<NodeLocked(20 * Unit, side * (PI \div 2))>>
        \o Repeat(IF side > 0 THEN NodeAngles(50 * Unit, -5, PI)
                              ELSE NodeAngles(50 * Unit, -PI, 5), 3)

\* CreatureLimb::new with the parent put last in the limb's chain
CreatureLimbNewParentLast(store, parent, limb_nodes, limb_reach_range, limb_reach_angle) ==
    LET r == insert_nodes(store, limb_nodes)
    IN  [store |-> r.store,
         limb |-> [ik |-> [nodes |-> r.ids \o <<parent>>, anchor |-> None,
                           target |-> ZERO, cycles |-> DemoCycles],
                   limb_reach_range |-> limb_reach_range,
                   limb_reach_angle |-> limb_reach_angle]]

\* CreatureLimb::new
CreatureLimbNew(store, parent, limb_nodes, limb_reach_range, limb_reach_angle) ==
    LET r == insert_nodes(store, limb_nodes)
    IN  [store |-> r.store,
         limb |-> [ik |-> [nodes |-> <<parent>> \o r.ids, anchor |-> None,
                           target |-> ZERO, cycles |-> DemoCycles],
                   limb_reach_range |-> limb_reach_range,
                   limb_reach_angle |-> limb_reach_angle]]

\* CreatureSubstate::new: the body, then arm_right, arm_left, leg_right, leg_left
CreatureSubstateNew(store) ==
    LET body == insert_nodes(store, CreatureBody)
        arm_parent == body.ids[2]
        leg_parent == body.ids[3]
        arm_right == CreatureLimbNew(body.store, arm_parent, LimbNodes(1), 150 * Unit, -5)
        arm_left == CreatureLimbNew(arm_right.store, arm_parent, LimbNodes(-1), 150 * Unit, 5)
        leg_right == CreatureLimbNew(arm_left.store, leg_parent, LimbNodes(1), 140 * Unit, -5)
        leg_left == CreatureLimbNew(leg_right.store, leg_parent, LimbNodes(-1), 140 * Unit, 5)
    IN  [store |-> leg_left.store, ik |-> NoIk,
         fk |-> [nodes |-> body.ids, prev_mouse_pos |-> ZERO, built |-> TRUE],
         limbs |-> <<arm_right.limb, arm_left.limb, leg_right.limb, leg_left.limb>>]

\* BridgeSubstate::new
BridgeSubstateNew(store) ==
    LET r == insert_nodes(store, Repeat(NodeUnlocked(20 * Unit), MaxNodes))
    IN  [store |-> r.store,
         ik |-> [nodes |-> r.ids, anchor |-> Some(Vec2(-300 * Unit, 0)), target |-> ZERO,
                 cycles |-> DemoCycles, built |-> TRUE],
         fk |-> NoFk, limbs |-> <<>>]

\* CreatureLimb::update re-aiming after every solve, reached or not
CreatureLimbUpdateAlwaysAims(ns, limb) ==
    LET limb_root == ns[limb.ik.nodes[1]]
        r == fabrik(ns, limb.ik)
        new_target_angle == limb_root.rotation + limb.limb_reach_angle
        new_target_dir == from_angle(new_target_angle)
    IN  [nodes |-> r.nodes, ret |-> r.ret, status |-> r.status, limb_root |-> limb_root,
         limb |-> [limb EXCEPT !.ik.target =
                       VAdd(limb_root.pos, Scaled(new_target_dir, limb.limb_reach_range))]]

\* the body of `if !ik::fabrik(..)` in CreatureLimb::update, r being what
\* fabrik returned and limb_root the limb's root as it was before the solve
CreatureLimbAimed(limb, limb_root, r) ==
    LET new_target_angle == limb_root.rotation + limb.limb_reach_angle
        new_target_dir == from_angle(new_target_angle)
    IN  [nodes |-> r.nodes, ret |-> r.ret, status |-> r.status, limb_root |-> limb_root,
         limb |-> [limb EXCEPT !.ik.target =
                       IF ~r.ret
                       THEN VAdd(limb_root.pos, Scaled(new_target_dir, limb.limb_reach_range))
                       ELSE @]]

\* CreatureLimb::update: the solve, and on false the target put at
\* limb_reach_range from the limb's root as it was before the solve
CreatureLimbUpdate(ns, limb) ==
    CreatureLimbAimed(limb, ns[limb.ik.nodes[1]], fabrik(ns, limb.ik))

RECURSIVE LimbsUpdated(_, _, _), LimbsAfter(_, _, _, _)
\* the limbs named by order updated one after the other; solves keeps, for
\* each, what its update read and what fabrik returned
LimbsUpdated(ns, ls, order) ==
    IF order = <<>> THEN [nodes |-> ns, limbs |-> ls, solves |-> <<>>]
    ELSE LimbsAfter(ns, ls, order, CreatureLimbUpdate(ns, ls[Head(order)]))

\* limb k updated as u says, ahead of the limbs updated after it
LimbSolved(ns, ls, k, u, rest) ==
    [nodes |-> rest.nodes, limbs |-> rest.limbs,
     solves |-> <<[limb |-> k, before |-> ns, given |-> ls[k],
                   ret |-> u.ret, left |-> u.limb]>> \o rest.solves]

\* the first limb of order updated as u says, then the others on what it left
LimbsAfter(ns, ls, order, u) ==
    LimbSolved(ns, ls, Head(order), u,
               LimbsUpdated(u.nodes, [ls EXCEPT ![Head(order)] = u.limb], Tail(order)))

\* arm_right, arm_left, leg_right, leg_left
LimbOrder == <<1, 2, 3, 4>>

\* what CreatureSubstate::update leaves, after_body being the store after
\* process_fk on the body and l the limbs' updates on it
CreatureSolved(ns, body, ls, mouse_pos, after_body, l) ==
    [nodes |-> l.nodes, ik |-> NoIk,
     fk |-> [body EXCEPT !.prev_mouse_pos =
                 IF Length(VSub(mouse_pos, @)) > Unit THEN mouse_pos ELSE @],
     limbs |-> l.limbs,
     seen |-> [before |-> ns, body |-> body, limbs |-> ls, mouse_pos |-> mouse_pos,
               after_body |-> after_body, solves |-> l.solves],
     status |-> "returned", ret |-> FALSE, ran |-> 0]

\* the limbs of CreatureSubstate::update, on the store process_fk left
CreatureBodyPlaced(ns, body, ls, mouse_pos, order, after_body) ==
    CreatureSolved(ns, body, ls, mouse_pos, after_body, LimbsUpdated(after_body, ls, order))

\* CreatureSubstate::update with the limbs solved in the given order
CreatureUpdatedInOrder(ns, body, ls, mouse_pos, order) ==
    CreatureBodyPlaced(ns, body, ls, mouse_pos, order,
                       process_fk([ns EXCEPT ![body.nodes[1]] =
                                       RootAtMouse(@, mouse_pos, body.prev_mouse_pos)],
                                  body).nodes)

\* CreatureSubstate::update
CreatureUpdated(ns, body, ls, mouse_pos) ==
    CreatureUpdatedInOrder(ns, body, ls, mouse_pos, LimbOrder)

\* the scene a solve r leaves when its chain is the only one
SolveLeft(aimed, r) ==
    [nodes |-> r.nodes, ik |-> aimed, fk |-> NoFk, limbs |-> <<>>, seen |-> <<>>,
     status |-> r.status, ret |-> r.ret, ran |-> r.ran]

\* self.ik.target = mouse_pos already assigned, the call of fabrik that ends
\* IKSubstate::update and BridgeSubstate::update
Aimed(ns, aimed) ==
    SolveLeft(aimed, fabrik(ns, aimed))

\* IKSubstate::update
IKUpdated(ns, chain, mouse_pos) ==
    Aimed(ns, [chain EXCEPT !.target = mouse_pos])

\* FKSubstate::update
FKUpdated(ns, body, mouse_pos) ==
    LET placed == [ns EXCEPT ![body.nodes[1]] =
                                 RootAtMouse(@, mouse_pos, body.prev_mouse_pos)]
        r == process_fk(placed, body)
    IN  [nodes |-> r.nodes, ik |-> NoIk,
         fk |-> [body EXCEPT !.prev_mouse_pos =
                     IF Length(VSub(mouse_pos, @)) > Unit THEN mouse_pos ELSE @],
         limbs |-> <<>>, seen |-> <<>>, status |-> r.status, ret |-> FALSE, ran |-> 0]

\* gravity * time.delta_seconds(): 300 a second, straight down, over a frame
\* of a sixtieth of a second (gravity_angle turns by half a radian a second,
\* under one step of the angle grid over MaxFrames frames)
GravityStep == Scaled(from_angle(-(PI \div 2)), 5 * Unit)

\* BridgeSubstate::update
BridgeUpdated(ns, chain, mouse_pos) ==
    LET fallen == [id \in DOMAIN ns |->
                      IF id \in SeqRange(Tail(chain.nodes))
                      THEN [ns[id] EXCEPT !.pos = VAdd(@, GravityStep)]
                      ELSE ns[id]]
    IN  Aimed(fallen, [chain EXCEPT !.target = mouse_pos])

\* SubState::update
SubstateUpdated(w, mouse_pos) ==
    CASE w.substate = "IK" -> IKUpdated(w.nodes, w.ik, mouse_pos)
      [] w.substate = "FK" -> FKUpdated(w.nodes, w.fk, mouse_pos)
      [] w.substate = "Creature" -> CreatureUpdated(w.nodes, w.fk, w.limbs, mouse_pos)
      [] w.substate = "Bridge" -> BridgeUpdated(w.nodes, w.ik, mouse_pos)

\* the match of State::change_state
ModeAfter(mode) ==
    CASE mode = "IK" -> "FK"
      [] mode = "FK" -> "Creature"
      [] mode = "Creature" -> "Bridge"
      [] mode = "Bridge" -> "IK"

\* SubState::new_ik, new_fk, new_creature, new_bridge
SubstateNew(mode, store) ==
    CASE mode = "IK" -> IKSubstateNew(store)
      [] mode = "FK" -> FKSubstateNew(store)
      [] mode = "Creature" -> CreatureSubstateNew(store)
      [] mode = "Bridge" -> BridgeSubstateNew(store)

\* what State holds of the scene
World ==
    [substate |-> substate, current_id |-> current_id, nodes |-> nodes,
     ik |-> ik, fk |-> fk, limbs |-> limbs]

WorldOf(mode, built) ==
    [substate |-> mode, current_id |-> built.store.current_id, nodes |-> built.store.nodes,
     ik |-> built.ik, fk |-> built.fk, limbs |-> built.limbs]

\* change_state building the next scene in the store it found
change_stateKeepingStore(w) ==
    WorldOf(ModeAfter(w.substate),
            SubstateNew(ModeAfter(w.substate), [current_id |-> w.current_id, nodes |-> w.nodes]))

\* State::change_state: a fresh store, then the next scene built in it
change_state(w) ==
    WorldOf(ModeAfter(w.substate), SubstateNew(ModeAfter(w.substate), EmptyStore))

\* Digit2 pressed, the circles left as they are
Digit2PressedAlone(r) == [r EXCEPT !.render_polygons = ~@]

\* KeyCode::Digit1 just pressed
Digit1Pressed(r) ==
    LET render_circles == ~r.render_circles
    IN  [render_circles |-> render_circles,
         render_polygons |-> IF ~render_circles THEN TRUE ELSE r.render_polygons]

\* KeyCode::Digit2 just pressed
Digit2Pressed(r) ==
    LET render_polygons == ~r.render_polygons
    IN  [render_circles |-> IF ~render_polygons THEN TRUE ELSE r.render_circles,
         render_polygons |-> render_polygons]

\* the two display keys of State::update, Digit1 before Digit2
DisplayKeys(r, keys) ==
    LET first == IF "Digit1" \in keys THEN Digit1Pressed(r) ELSE r
    IN  IF "Digit2" \in keys THEN Digit2Pressed(first) ELSE first

\* State::new: the IK scene built in a fresh store
InitApp ==
    /\ \E w \in {WorldOf("IK", IKSubstateNew(EmptyStore))} :
           /\ substate = w.substate
           /\ current_id = w.current_id
           /\ nodes = w.nodes
           /\ ik = w.ik
           /\ fk = w.fk
           /\ limbs = w.limbs
    /\ renderer = RendererNew
    /\ frames = 0
    /\ switches = 0
    /\ seen = <<>>
    /\ called = "none"
    /\ status = "idle"
    /\ ret = FALSE
    /\ ran = 0
    /\ pre = <<>>
    /\ calls = 0
    /\ aimed_from = <<>>
    /\ op = "none"
    /\ args = <<>>
    /\ out = <<>>
    /\ issued = <<>>

\* State::update: one frame with the keys just pressed and the mouse at mouse_pos
Frame(keys, mouse_pos) ==
    /\ Running
    /\ frames < MaxFrames
    /\ \E w \in {IF "Space" \in keys THEN change_state(World) ELSE World} :
           \E u \in {SubstateUpdated(w, mouse_pos)} :
               /\ substate' = w.substate
               /\ current_id' = w.current_id
               /\ pre' = w.nodes
               /\ nodes' = u.nodes
               /\ ik' = u.ik
               /\ fk' = u.fk
               /\ limbs' = u.limbs
               /\ seen' = u.seen
               /\ status' = u.status
               /\ ret' = u.ret
               /\ ran' = u.ran
    /\ renderer' = DisplayKeys(renderer, keys)
    /\ frames' = frames + 1
    /\ switches' = IF "Space" \in keys THEN switches + 1 ELSE switches
    /\ called' = "update"
    /\ UNCHANGED <<calls, aimed_from>>
    /\ UNCHANGED lib_vars

KeySets == SUBSET {"Space", "Digit1", "Digit2"}

\* where the mouse is while the keys are tried
MouseAtRest == Vec2(60 * Unit, 80 * Unit)

\* the mouse over the frames in which the keys are tried
AppMousePositions == {MouseAtRest, Vec2(100 * Unit, 0)}

NextApp == \E keys \in KeySets, mouse_pos \in AppMousePositions : Frame(keys, mouse_pos)

AppSpec == InitApp /\ [][NextApp]_vars

\* where the mouse goes over the creature's frames
CreatureMousePositions ==
    {Vec2(60 * Unit, 80 * Unit), Vec2(100 * Unit, 0), Vec2(0, 0), Vec2(-60 * Unit, 0),
     Vec2(0, -50 * Unit)}

\* the switches to the creature's scene, then frames in which the mouse moves
NextCreature ==
    \/ substate # "Creature" /\ Frame({"Space"}, MouseAtRest)
    \/ substate = "Creature" /\ \E mouse_pos \in CreatureMousePositions : Frame({}, mouse_pos)

CreatureSpec == InitApp /\ [][NextCreature]_vars

\* a node of the store that no chain names
Bystander == [NodeLocked(30 * Unit, PI \div 2) EXCEPT !.pos = Vec2(70 * Unit, 10 * Unit), !.rotation = 5]

\* MaxNodes nodes of a scene inserted into an empty store, and one more
StoreOf(batch) == insert_nodes([current_id |-> 0, nodes |-> <<>>], batch \o <<Bystander>>).store.nodes

\* the store after the root was put at pos and a forward pass laid the chain out
LaidOutFrom(ns, pos) ==
    process_fk([ns EXCEPT ![0].pos = pos], [nodes |-> Ids(MaxNodes)]).nodes

SolveStores ==
    LET fresh == {StoreOf(batch) : batch \in Chains(MaxNodes) \cup FkChains(MaxNodes)}
    IN  fresh \cup {LaidOutFrom(ns, pos) : ns \in fresh, pos \in RootPositions}

\* the descriptors a caller may hand to fabrik
SolveIks ==
    [nodes : ChainLists, anchor : Anchors, target : MousePositions, cycles : CycleBudgets]

InitSolve ==
    /\ nodes \in SolveStores
    /\ current_id = MaxNodes + 1
    /\ ik = NoIk
    /\ fk = NoFk
    /\ called = "none"
    /\ status = "idle"
    /\ ret = FALSE
    /\ ran = 0
    /\ pre = <<>>
    /\ calls = 0
    /\ aimed_from = <<>>
    /\ NoApp
    /\ op = "none"
    /\ args = <<>>
    /\ out = <<>>
    /\ issued = <<>>

\* a call fabrik(&mut node_manager, &ik) by a caller that keeps store and descriptor
SolveFabrik(chain) ==
    /\ op = "none"
    /\ \E r \in {FabrikLeaves(nodes, chain)} :
           /\ op' = "fabrik"
           /\ args' = [nodes |-> nodes, chain |-> chain]
           /\ out' = r
           /\ nodes' = r.nodes
    /\ UNCHANGED <<current_id, ik, fk, called, status, ret, ran, pre, calls, aimed_from, issued>>
    /\ UNCHANGED app_vars

\* a call process_fk(&mut node_manager, &fk)
SolveProcessFk(chain) ==
    /\ op = "none"
    /\ \E r \in {ProcessFkLeaves(nodes, chain)} :
           /\ op' = "process_fk"
           /\ args' = [nodes |-> nodes, chain |-> chain]
           /\ out' = r
           /\ nodes' = r.nodes
    /\ UNCHANGED <<current_id, ik, fk, called, status, ret, ran, pre, calls, aimed_from, issued>>
    /\ UNCHANGED app_vars

NextSolve ==
    \/ \E chain \in SolveIks : SolveFabrik(chain)
    \/ \E node_ids \in ChainLists : SolveProcessFk([nodes |-> node_ids])

SolveSpec == InitSolve /\ [][NextSolve]_vars

\* the angles a caller gives a preset: any within half a turn either way
LimitAngles == (-PI)..PI

InitNode ==
    /\ NoScene
    /\ op = "none"
    /\ args \in [radius : {20 * Unit, 50 * Unit}, a : LimitAngles, b : LimitAngles]
    /\ out = <<>>
    /\ issued = <<>>

\* a call of a preset, the node it builds being `node`
Construct(preset, node) ==
    /\ op = "none"
    /\ op' = preset
    /\ out' = node
    /\ UNCHANGED <<args, issued>>
    /\ UNCHANGED <<scene_vars, app_vars>>

ConstructNew == Construct("Node::new", NodeNew(args.radius))
ConstructLocked == Construct("Node::locked", NodeLocked(args.radius, args.a))
ConstructUnlocked == Construct("Node::unlocked", NodeUnlocked(args.radius))
ConstructAngle == Construct("Node::angle", NodeAngle(args.radius, args.a))
ConstructAngles == Construct("Node::angles", NodeAngles(args.radius, args.a, args.b))

NextNode ==
    \/ ConstructNew
    \/ ConstructLocked
    \/ ConstructUnlocked
    \/ ConstructAngle
    \/ ConstructAngles

NodeSpec == InitNode /\ [][NextNode]_vars

InitAngles ==
    /\ NoScene
    /\ op = "none"
    /\ args \in [a : Angles, b : Angles]
    /\ out = <<>>
    /\ issued = <<>>

\* a call angle_diff(a, b)
AngleDiff ==
    /\ op = "none"
    /\ op' = "angle_diff"
    /\ out' = angle_diff(args.a, args.b)
    /\ UNCHANGED <<args, issued>>
    /\ UNCHANGED <<scene_vars, app_vars>>

\* a call _wrap_angle(a)
WrapAngle ==
    /\ op = "none"
    /\ op' = "_wrap_angle"
    /\ out' = _wrap_angle(args.a)
    /\ UNCHANGED <<args, issued>>
    /\ UNCHANGED <<scene_vars, app_vars>>

NextAngles == AngleDiff \/ WrapAngle

AngleSpec == InitAngles /\ [][NextAngles]_vars

\* the nodes a caller hands to the store
StoreNodes == {NodeNew(50 * Unit), NodeUnlocked(20 * Unit), NodeLocked(20 * Unit, PI \div 2)}

StoreBatches == {<<>>} \cup {<<a>> : a \in StoreNodes} \cup {<<a, b>> : a, b \in StoreNodes}

\* ids a caller may ask for, issued or not
StoreIds == 0..MaxInserts

\* the ids paired with the nodes they were issued for, in the order of issue
Issue(ids, batch) == [i \in 1..Len(ids) |-> [id |-> ids[i], node |-> batch[i]]]

\* a call node_manager.insert(node)
StoreInsert(node) ==
    /\ current_id < MaxInserts
    /\ \E r \in {insert([current_id |-> current_id, nodes |-> nodes], node)} :
           /\ current_id' = r.store.current_id
           /\ nodes' = r.store.nodes
           /\ op' = "insert"
           /\ args' = node
           /\ out' = r.id
           /\ issued' = issued \o Issue(<<r.id>>, <<node>>)
    /\ UNCHANGED <<ik, fk, called, status, ret, ran, pre, calls, aimed_from>>
    /\ UNCHANGED app_vars

\* a call node_manager.insert_nodes(batch)
StoreInsertNodes(batch) ==
    /\ current_id + Len(batch) <= MaxInserts
    /\ \E r \in {insert_nodes([current_id |-> current_id, nodes |-> nodes], batch)} :
           /\ current_id' = r.store.current_id
           /\ nodes' = r.store.nodes
           /\ op' = "insert_nodes"
           /\ args' = batch
           /\ out' = r.ids
           /\ issued' = issued \o Issue(r.ids, batch)
    /\ UNCHANGED <<ik, fk, called, status, ret, ran, pre, calls, aimed_from>>
    /\ UNCHANGED app_vars

\* a call node_manager.get_node(id)
GetNode(id) ==
    /\ op' = "get_node"
    /\ args' = id
    /\ out' = get_node([current_id |-> current_id, nodes |-> nodes], id)
    /\ UNCHANGED issued
    /\ UNCHANGED <<scene_vars, app_vars>>

\* id lists a caller may ask for: any order, ids issued or not, repeats
\* included; the lists of three are over the first three ids
StoreIdLists ==
    {<<>>} \cup {<<a>> : a \in StoreIds} \cup {<<a, b>> : a, b \in StoreIds}
           \cup {<<a, b, c>> : a, b, c \in 0..2}

\* a call node_manager.get_nodes_mut(node_ids), nothing written through the references
GetNodesMut(node_ids) ==
    /\ op' = "get_nodes_mut"
    /\ args' = node_ids
    /\ out' = get_nodes_mut(nodes, node_ids)
    /\ UNCHANGED issued
    /\ UNCHANGED <<scene_vars, app_vars>>

NextStore ==
    \/ \E node \in StoreNodes : StoreInsert(node)
    \/ \E batch \in StoreBatches : StoreInsertNodes(batch)
    \/ \E id \in StoreIds : GetNode(id)
    \/ \E node_ids \in StoreIdLists : GetNodesMut(node_ids)

StoreSpec == Init /\ [][NextStore]_vars

(***************************************************************************)
(* Claims                                                                  *)
(***************************************************************************)
\* the last call was fabrik, on the chain ik and the nodes pre
FabrikCalled == called = "fabrik"

\* every id of the chain names a node of the store the call began with
AllPresent(chain, store) == SeqRange(chain.nodes) \subseteq DOMAIN store

\* a valid chain for fabrik: three or more ids, all present (ChainLists holds no id twice)
ValidIk == Len(ik.nodes) >= 3 /\ AllPresent(ik, pre)

\* C1: fabrik called on a chain of fewer than 3 ids returns false and leaves
\* every node of the store exactly as it was before the call.
C1_ShortChainReturnsFalse ==
    (FabrikCalled /\ Len(ik.nodes) < 3) =>
        (status = "returned" /\ ret = FALSE /\ nodes = pre)

\* a chain of two present nodes was given to fabrik with cycles to run and a
\* target away from the tail
C1_Witness ==
    /\ FabrikCalled
    /\ Len(ik.nodes) = 2
    /\ AllPresent(ik, pre)
    /\ ik.cycles >= 1
    /\ pre[ik.nodes[2]].pos # ik.target

\* C2: fabrik called on a chain of 3 or more ids, one of them absent from the
\* store, does not panic: it returns false and leaves every node unchanged.
C2_DanglingIdReturnsFalse ==
    (FabrikCalled /\ Len(ik.nodes) >= 3 /\ ~AllPresent(ik, pre)) =>
        (status = "returned" /\ ret = FALSE /\ nodes = pre)

\* C3: process_fk called on a chain of 2 or more ids, one of them absent from
\* the store, does not panic: it completes and leaves every node unchanged.
C3_FkDanglingIdCompletes ==
    (called = "process_fk" /\ Len(fk.nodes) >= 2 /\ ~AllPresent(fk, pre)) =>
        (status = "returned" /\ nodes = pre)

\* the chain's root and tail in the store
RootId(chain) == chain.nodes[1]
TailId(chain) == chain.nodes[Len(chain.nodes)]

\* the anchor of the last fabrik call: ik.anchor, or where the root was when the call began
AnchorAtCall == IF ik.anchor = None THEN pre[RootId(ik)].pos ELSE ik.anchor[1]

RECURSIVE PosesFrom(_, _)
\* the chain after 0, 1, ..., n whole cycles of the last fabrik call run from
\* refs, no cycle cut short
PosesFrom(refs, n) ==
    IF n = 0 THEN <<refs>>
    ELSE <<refs>> \o PosesFrom(FabrikCycle(refs, ik.target, AnchorAtCall, pre[RootId(ik)].rotation),
                               n - 1)

\* Poses[k + 1] is the chain after k cycles of the last call
Poses == PosesFrom(get_nodes_mut(pre, ik.nodes), ik.cycles)

\* the chain as the store holds it now
ChainNow == [i \in 1..Len(ik.nodes) |-> nodes[ik.nodes[i]]]

\* p is at distance < 1.0 from the target
WithinThreshold(p) ==
    (p.x - ik.target.x) * (p.x - ik.target.x) + (p.y - ik.target.y) * (p.y - ik.target.y)
        < Unit * Unit

\* the cycles of the last call that end with the tail within the threshold
HitCycles(poses) == {k \in 1..ik.cycles : WithinThreshold(poses[k + 1][Len(ik.nodes)].pos)}

\* C4: for a valid chain fabrik returns true if and only if some cycle
\* k (1 <= k <= cycles) ends with the tail at distance < 1.0 from the target;
\* it stops at the first such cycle, and then the tail in the store is within
\* 1.0 of the target.
C4_TrueIffACycleEndsWithinThreshold ==
    (FabrikCalled /\ ValidIk) =>
        \E poses \in {Poses} :
            /\ status = "returned"
            /\ ret <=> HitCycles(poses) # {}
            /\ ret => /\ ran \in HitCycles(poses)
                      /\ \A k \in HitCycles(poses) : ran <= k
                      /\ ChainNow = poses[ran + 1]
                      /\ WithinThreshold(nodes[TailId(ik)].pos)

\* fabrik returned true in its second cycle or later, with budget to spare
C4_Witness ==
    /\ FabrikCalled /\ ValidIk
    /\ ret
    /\ ran >= 2
    /\ ran < ik.cycles

\* C5: for a valid chain fabrik terminates after at most `cycles` cycles; when
\* no cycle ends within the threshold it runs exactly `cycles` cycles, returns
\* false, and the nodes keep the pose of the last cycle.
C5_ExhaustedBudgetKeepsLastPose ==
    (FabrikCalled /\ ValidIk) =>
        \E poses \in {Poses} :
            /\ status = "returned"
            /\ ran <= ik.cycles
            /\ HitCycles(poses) = {} =>
                  /\ ran = ik.cycles
                  /\ ret = FALSE
                  /\ ChainNow = poses[ik.cycles + 1]

\* fabrik ran its whole budget of two or more cycles, returned false and left
\* the chain in another pose than it found it in
C5_Witness ==
    /\ FabrikCalled /\ ValidIk
    /\ ~ret
    /\ ik.cycles >= 2
    /\ ran = ik.cycles
    /\ nodes # pre

\* the root as the backward pass of the first cycle of the last call left it
RootAfterBackward ==
    LET refs == get_nodes_mut(pre, ik.nodes)
        last == Len(refs)
    IN  BackwardPass([refs EXCEPT ![last].pos = ik.target], last - 1)[1]

\* C6: for any valid chain, target, anchor and cycle budget, the root's
\* rotation after fabrik returns equals its rotation before the call.
C6_RootRotationKept ==
    (FabrikCalled /\ ValidIk) =>
        (status = "returned" /\ nodes[RootId(ik)].rotation = pre[RootId(ik)].rotation)

\* fabrik ran cycles whose backward pass turned the root
C6_Witness ==
    /\ FabrikCalled /\ ValidIk
    /\ ran >= 1
    /\ RootAfterBackward.rotation # pre[RootId(ik)].rotation

\* C7: after fabrik returns on a valid chain with cycles >= 1, the root's
\* position is the anchor when the anchor is Some, and the root's position at
\* the start of the call when the anchor is None.
C7_RootPinnedToAnchor ==
    (FabrikCalled /\ ValidIk /\ ik.cycles >= 1) =>
        /\ status = "returned"
        /\ ik.anchor # None => nodes[RootId(ik)].pos = ik.anchor[1]
        /\ ik.anchor = None => nodes[RootId(ik)].pos = pre[RootId(ik)].pos

\* fabrik ran two or more cycles on an unanchored chain whose root the driver
\* had placed away from the origin, and the backward pass moved that root
C7_Witness ==
    /\ FabrikCalled /\ ValidIk
    /\ ik.anchor = None
    /\ ran >= 2
    /\ pre[RootId(ik)].pos # ZERO
    /\ RootAfterBackward.pos # pre[RootId(ik)].pos

\* the store and chain of the end-to-end scenario: 3 unlocked nodes of radius
\* 50 at their default pose, anchor (0,0), target (100,0), cycles = 10
EndToEndScenario ==
    /\ FabrikCalled
    /\ pre = [id \in 0..2 |-> NodeUnlocked(50 * Unit)]
    /\ Len(ik.nodes) = 3
    /\ ik.anchor = Some(ZERO)
    /\ ik.target = Vec2(100 * Unit, 0)
    /\ ik.cycles = 10

\* C8: in the end-to-end scenario fabrik returns true and the tail ends
\* within 1.0 of (100,0).
C8_EndToEnd ==
    EndToEndScenario =>
        (status = "returned" /\ ret /\ WithinThreshold(nodes[TailId(ik)].pos))

\* the end-to-end scenario was run
C8_Witness == EndToEndScenario /\ ran >= 1

RECURSIVE SumRadii(_, _)
\* the sum of the radii of the first n nodes of refs
SumRadii(refs, n) == IF n = 0 THEN 0 ELSE refs[n].radius + SumRadii(refs, n - 1)

\* every node of the chain was made by Node::unlocked
Unconstrained(store) ==
    \A i \in 1..Len(ik.nodes) :
        /\ store[ik.nodes[i]].min_rotation = -TAU
        /\ store[ik.nodes[i]].max_rotation = TAU

\* the sum of the radii of all the chain's nodes
TotalLength == SumRadii(get_nodes_mut(pre, ik.nodes), Len(ik.nodes))

\* the sum of the radii of the chain's nodes but the tail
LengthToTail == SumRadii(get_nodes_mut(pre, ik.nodes), Len(ik.nodes) - 1)

AnchorTargetDistance == Length(VSub(AnchorAtCall, ik.target))

TailTargetDistance == Length(VSub(nodes[TailId(ik)].pos, ik.target))

\* the solver's threshold of 1.0, and what a chain of this length is off its
\* line when its direction is half an angle step off
Tolerance(length) == Unit + (length * Sin(1)) \div (2 * TrigScale)

\* an unconstrained chain shorter, by the sum of all its radii, than the
\* distance from the anchor to the target, solved with one cycle or more
UnreachableCase ==
    /\ FabrikCalled /\ ValidIk
    /\ Unconstrained(pre)
    /\ ik.cycles >= 1
    /\ TotalLength < AnchorTargetDistance

StraightPose(refs) ==
    /\ \A i \in 1..(Len(refs) - 1) : refs[i + 1].pos # refs[i].pos
    /\ \A i \in 1..(Len(refs) - 2) :
           /\ Cross(VSub(refs[i + 1].pos, refs[i].pos), VSub(refs[i + 2].pos, refs[i + 1].pos)) = 0
           /\ Dot(VSub(refs[i + 1].pos, refs[i].pos), VSub(refs[i + 2].pos, refs[i + 1].pos)) > 0

\* the anchor of the calls made since the target last moved
AnchorWhenAimed == IF ik.anchor = None THEN aimed_from[RootId(ik)].pos ELSE ik.anchor[1]

\* fabrik has been called, with one cycle or more, on a chain of unlocked
\* nodes of one radius that was straight when the target last moved, the sum
\* of its radii >= distance(anchor, target) even with the tail's radius left out
RepeatCase ==
    /\ FabrikCalled
    /\ ik.cycles >= 1
    /\ Len(ik.nodes) >= 3 /\ AllPresent(ik, aimed_from)
    /\ Unconstrained(aimed_from)
    /\ \A i \in 1..Len(ik.nodes) :
           aimed_from[ik.nodes[i]].radius = aimed_from[RootId(ik)].radius
    /\ StraightPose(get_nodes_mut(aimed_from, ik.nodes))
    /\ SumRadii(get_nodes_mut(aimed_from, ik.nodes), Len(ik.nodes) - 1)
           >= Length(VSub(AnchorWhenAimed, ik.target))

\* the tail's distance to the target when the last call began
TailTargetDistanceBefore == Length(VSub(pre[TailId(ik)].pos, ik.target))

\* C10 as stated, on the calls made so far: for a straight chain of unlocked
\* nodes whose total length is >= distance(anchor, target), a further call
\* with the same anchor and target leaves the tail no farther from the target
\* than the call before left it (or within 1.0), and a call that returns
\* false has moved the chain: fabrik is a function of the nodes and the
\* chain, so a call that returns false and moves nothing is repeated by every
\* later call, and none returns true.
C10_RepeatedSolvingConverges ==
    RepeatCase =>
        /\ pre # aimed_from =>
               \/ TailTargetDistance <= TailTargetDistanceBefore
               \/ TailTargetDistance < Unit
        /\ ~ret => nodes # pre

\* process_fk has returned from a pass over a chain of two or more nodes
FkPassDone ==
    /\ called = "process_fk"
    /\ status = "returned"
    /\ Len(fk.nodes) >= 2
    /\ AllPresent(fk, pre)

\* node i of the FK chain before the last pass, and after it
FkBefore(i) == pre[fk.nodes[i]]
FkAfter(i) == nodes[fk.nodes[i]]

\* the angle from node i, where it was before the pass, to its parent, where
\* the pass has put it
RawAngle(i) == to_angle(VSub(FkAfter(i - 1).pos, FkBefore(i).pos))

\* C11: after process_fk every adjacent pair (i-1, i) of the chain satisfies
\* child.rotation = parent.rotation + clamp(angle_diff(raw_angle,
\* parent.rotation), child.min_rotation, child.max_rotation) and child.pos =
\* parent.pos - unit_vector(child.rotation) * parent.radius, so the child lies
\* at distance parent.radius from the parent (to the rounding of one position
\* step); this holds for all the pairs at once.
C11_FkPairRelation ==
    FkPassDone =>
        \A i \in 2..Len(fk.nodes) :
            /\ FkAfter(i).rotation =
                   FkAfter(i - 1).rotation
                       + Clamp(angle_diff(RawAngle(i), FkAfter(i - 1).rotation),
                               FkBefore(i).min_rotation, FkBefore(i).max_rotation)
            /\ FkAfter(i).pos =
                   VSub(FkAfter(i - 1).pos,
                        Scaled(from_angle(FkAfter(i).rotation), FkAfter(i - 1).radius))
            /\ Abs(Length(VSub(FkAfter(i).pos, FkAfter(i - 1).pos)) - FkAfter(i - 1).radius) <= 1

\* a pass over three nodes or more that moved a parent and then clamped its child
C11_Witness ==
    /\ FkPassDone
    /\ Len(fk.nodes) >= 3
    /\ \E i \in 3..Len(fk.nodes) :
           /\ FkAfter(i - 1) # FkBefore(i - 1)
           /\ angle_diff(RawAngle(i), FkAfter(i - 1).rotation) > FkBefore(i).max_rotation

\* node is a locked joint: min_rotation = max_rotation
Locked(node) == node.min_rotation = node.max_rotation

\* fabrik has returned from one cycle or more over a chain that is all in the store
FabrikCyclesDone == FabrikCalled /\ ValidIk /\ status = "returned" /\ ran >= 1

\* C12: every non-root chain node with min_rotation = max_rotation = k has,
\* after process_fk and after fabrik's last forward pass, the rotation of its
\* parent plus k, whatever its position and rotation were before.
C12_LockedJointKeepsItsAngle ==
    /\ FkPassDone =>
           \A i \in 2..Len(fk.nodes) :
               Locked(FkBefore(i)) =>
                   FkAfter(i).rotation = FkAfter(i - 1).rotation + FkBefore(i).min_rotation
    /\ FabrikCyclesDone =>
           \A i \in 2..Len(ik.nodes) :
               Locked(pre[ik.nodes[i]]) =>
                   nodes[ik.nodes[i]].rotation
                       = nodes[ik.nodes[i - 1]].rotation + pre[ik.nodes[i]].min_rotation

\* fabrik ran on a chain with a locked joint that came in at another angle to
\* its parent and was moved
C12_Witness ==
    /\ FabrikCyclesDone
    /\ \E i \in 2..Len(ik.nodes) :
           /\ Locked(pre[ik.nodes[i]])
           /\ pre[ik.nodes[i]].rotation
                  # pre[ik.nodes[i - 1]].rotation + pre[ik.nodes[i]].min_rotation
           /\ nodes[ik.nodes[i]].pos # pre[ik.nodes[i]].pos

\* attach_node_rotations has been applied to an unlocked child
UnlockedAttached ==
    /\ op = "attach_node_rotations"
    /\ args.child.min_rotation = -TAU
    /\ args.child.max_rotation = TAU

\* the angle from the child to the parent, as both attach rules first compute it
AttachRawAngle == to_angle(VSub(args.parent.pos, args.child.pos))

\* C13 as stated: for every parent rotation and every pair of positions,
\* attach_node_rotations on an unlocked child (limits -2 pi and 2 pi) never
\* clamps, and leaves the child where attach_node would: at parent.radius from
\* the parent, on the line through the child's prior position.
C13_UnlockedNeverClamps ==
    UnlockedAttached =>
        /\ angle_diff(AttachRawAngle, args.parent.rotation) >= -TAU
        /\ angle_diff(AttachRawAngle, args.parent.rotation) <= TAU
        /\ out.pos = attach_node(args.parent, args.child).pos

\* x lies in (-pi, pi] and is congruent to y modulo 2 pi
NormalisedFrom(x, y) ==
    /\ x > -PI
    /\ x <= PI
    /\ (x - y) % TAU = 0

\* C15 as stated: for all angles a and b, angle_diff(a, b) lies in (-pi, pi]
\* and is congruent to a - b modulo 2 pi.
C15_AngleDiffNormalises ==
    op = "angle_diff" => NormalisedFrom(out, args.a - args.b)

\* C16: for all a, b such that neither angle_diff(a, b) nor angle_diff(b, a)
\* is exactly pi, angle_diff(a, b) = -angle_diff(b, a).
C16_AngleDiffAntisymmetric ==
    (op = "angle_diff" /\ out # PI /\ angle_diff(args.b, args.a) # PI) =>
        out = -angle_diff(args.b, args.a)

\* angle_diff applied to angles more than half a turn apart, where it wraps
C16_Witness ==
    /\ op = "angle_diff"
    /\ args.a - args.b > PI
    /\ out # args.a - args.b
    /\ out # 0

\* C17 as stated: for every angle a, _wrap_angle(a) lies in (-pi, pi] and is
\* congruent to a modulo 2 pi.
C17_WrapAngleNormalises ==
    op = "_wrap_angle" => NormalisedFrom(out, args.a)

\* a call of process_fk that has returned
FkReturned == called = "process_fk" /\ status = "returned"

\* C14: process_fk never changes the root node (the chain's first id): its
\* position, rotation, radius and limits are after the call what they were
\* before it; and on a chain of length 0 or 1 it changes no node at all.
C14_FkLeavesRootAlone ==
    FkReturned =>
        /\ (Len(fk.nodes) >= 1 /\ fk.nodes[1] \in DOMAIN pre) =>
               nodes[fk.nodes[1]] = pre[fk.nodes[1]]
        /\ Len(fk.nodes) < 2 => nodes = pre
        /\ DOMAIN nodes = DOMAIN pre

\* a pass over a chain of two or more nodes that moved a node other than the root
C14_Witness ==
    /\ FkPassDone
    /\ \E i \in 2..Len(fk.nodes) : FkAfter(i).pos # FkBefore(i).pos
    /\ FkAfter(1).pos # ZERO

\* the ids issued so far, in the order of issue
IssuedIds == [k \in 1..Len(issued) |-> issued[k].id]

\* C18: insert never fails and, over any sequence of insert / insert_nodes
\* calls on one store, returns an id different from every id returned
\* earlier; the id counter only increases and is always greater than every
\* key present in the store.
C18_InsertIssuesFreshIds ==
    /\ [](/\ \A j, k \in 1..Len(issued) : j # k => issued[j].id # issued[k].id
          /\ \A id \in DOMAIN nodes : id < current_id
          /\ op = "insert" => (out \in DOMAIN nodes /\ nodes[out] = args))
    /\ [][current_id' >= current_id]_vars

\* a second insert on a store that has already issued ids through insert_nodes
C18_Witness ==
    /\ op = "insert"
    /\ Len(issued) >= 3
    /\ out = current_id - 1

\* C19: insert_nodes(nodes) returns exactly one id per input node, in input
\* order: the i-th id returned maps to a copy of the i-th input node, and the
\* ids are strictly increasing.
C19_InsertNodesKeepsInputOrder ==
    op = "insert_nodes" =>
        /\ Len(out) = Len(args)
        /\ \A i \in 1..Len(out) : out[i] \in DOMAIN nodes /\ nodes[out[i]] = args[i]
        /\ \A i, j \in 1..Len(out) : i < j => out[i] < out[j]

\* a batch of two different nodes inserted into a store that is not empty
C19_Witness ==
    /\ op = "insert_nodes"
    /\ Len(args) = 2
    /\ args[1] # args[2]
    /\ out[1] > 0

\* C20: get_node / get_node_mut return None for an id that no insert on this
\* store returned, and for an id that insert returned the node stored under
\* it: right after id = insert(n), get_node(id) is n, and later inserts do
\* not change what get_node(id) returns.
C20_GetNodeReturnsWhatWasInserted ==
    op = "get_node" =>
        IF \E k \in 1..Len(issued) : issued[k].id = args
        THEN \A k \in 1..Len(issued) : issued[k].id = args => out = Some(issued[k].node)
        ELSE out = None

\* get_node of an id issued before the newest one, the two nodes being different
C20_Witness ==
    /\ op = "get_node"
    /\ out # None
    /\ Len(issued) >= 2
    /\ args < current_id - 1
    /\ issued[Len(issued)].node # out[1]

\* the ids of a list are pairwise distinct
Distinct(ids) == \A i, j \in 1..Len(ids) : i # j => ids[i] # ids[j]

\* C21: get_nodes_mut(ids) with pairwise-distinct ids returns, when every id
\* is present, exactly len(ids) nodes, the i-th being the node stored under
\* ids[i]; when any id is absent it returns an empty list; in both cases it
\* changes no node and no key of the store.
C21_GetNodesMutInOrderOrEmpty ==
    /\ []((op = "get_nodes_mut" /\ Distinct(args)) =>
            IF SeqRange(args) \subseteq DOMAIN nodes
            THEN /\ Len(out) = Len(args)
                 /\ \A i \in 1..Len(args) : out[i] = nodes[args[i]]
            ELSE out = <<>>)
    /\ [][op' = "get_nodes_mut" => (nodes' = nodes /\ current_id' = current_id)]_vars

\* three present ids asked for out of key order, their nodes not all the same
C21_Witness ==
    /\ op = "get_nodes_mut"
    /\ Len(args) = 3
    /\ Distinct(args)
    /\ args[1] > args[2]
    /\ Len(out) = 3
    /\ out[1] # out[2]

\* C22 as stated: every node has min_rotation <= max_rotation; each preset
\* (new, locked, unlocked, angle, angles, for any arguments) builds a node
\* with min_rotation <= max_rotation.
C22_PresetsOrderTheLimits ==
    op # "none" => out.min_rotation <= out.max_rotation

\* a solver call made on its own has ended, returning or panicking
Solved == op \in {"fabrik", "process_fk"}

C24_OnlyChainPosesChange ==
    Solved =>
        /\ DOMAIN out.nodes = DOMAIN args.nodes
        /\ \A id \in DOMAIN args.nodes :
               IF id \in SeqRange(args.chain.nodes)
               THEN /\ out.nodes[id].radius = args.nodes[id].radius
                    /\ out.nodes[id].min_rotation = args.nodes[id].min_rotation
                    /\ out.nodes[id].max_rotation = args.nodes[id].max_rotation
               ELSE out.nodes[id] = args.nodes[id]
        /\ nodes = out.nodes

\* a fabrik call that moved chain nodes in a store holding nodes outside the chain
C24_Witness ==
    /\ op = "fabrik"
    /\ out.status = "returned"
    /\ \E id \in SeqRange(args.chain.nodes) : out.nodes[id].pos # args.nodes[id].pos
    /\ \E id \in DOMAIN args.nodes : id \notin SeqRange(args.chain.nodes)
    /\ \E i, j \in 1..Len(args.chain.nodes) :
           args.nodes[args.chain.nodes[i]].radius # args.nodes[args.chain.nodes[j]].radius

\* the rotation the forward attach step leaves when the raw orientation is raw
RotationFromRaw(raw) ==
    args.parent.rotation
        + Clamp(angle_diff(raw, args.parent.rotation),
                args.child.min_rotation, args.child.max_rotation)

IkAfter(i) == nodes[ik.nodes[i]]

\* C26: after fabrik returns (true or false) on a valid chain with cycles >= 1,
\* every non-root chain node i has min_rotation_i <= rotation_i -
\* rotation_{i-1} <= max_rotation_i and lies at distance radius_{i-1} from
\* node i-1 (to the rounding of one position step): the pose read by the
\* caller is that of the constrained forward pass.
C26_ReturnedPoseKeepsTheLimits ==
    FabrikCyclesDone =>
        \A i \in 2..Len(ik.nodes) :
            /\ IkAfter(i).rotation - IkAfter(i - 1).rotation >= IkAfter(i).min_rotation
            /\ IkAfter(i).rotation - IkAfter(i - 1).rotation <= IkAfter(i).max_rotation
            /\ Abs(Length(VSub(IkAfter(i).pos, IkAfter(i - 1).pos)) - IkAfter(i - 1).radius) <= 1

\* fabrik returned false with a joint that is not locked held at one of its limits
C26_Witness ==
    /\ FabrikCyclesDone
    /\ ~ret
    /\ \E i \in 2..Len(ik.nodes) :
           /\ ~Locked(IkAfter(i))
           /\ IkAfter(i).max_rotation < PI
           /\ IkAfter(i).rotation - IkAfter(i - 1).rotation = IkAfter(i).max_rotation
           /\ IkAfter(i).pos # pre[ik.nodes[i]].pos

\* the scenes in the order State::change_state goes through them, from
\* the one State::new builds
ModeCycle == <<"IK", "FK", "Creature", "Bridge">>

\* the chains the active scene holds
ChainsHeld ==
    CASE substate \in {"IK", "Bridge"} -> {ik.nodes}
      [] substate = "FK" -> {fk.nodes}
      [] substate = "Creature" -> {fk.nodes} \cup {limbs[k].ik.nodes : k \in 1..Len(limbs)}

IdsHeld == UNION {SeqRange(chain) : chain \in ChainsHeld}

\* C27: each change_state moves the active substate along the cycle IK -> FK
\* -> Creature -> Bridge -> IK, so four switches in a row return to the mode
\* they began in; every switch replaces the NodeManager with a fresh empty
\* store before the new mode inserts its nodes, so every id held by the
\* active mode's chains is in the store and no node of the mode before remains.
C27_ModesCycleOnFreshStores ==
    substate # "none" =>
        /\ substate = ModeCycle[(switches % 4) + 1]
        /\ IdsHeld \subseteq DOMAIN nodes
        /\ DOMAIN nodes \subseteq IdsHeld
        /\ DOMAIN nodes = 0..(current_id - 1)

\* four switches made, the IK scene active again, after frames spent in it
C27_Witness ==
    /\ switches = 4
    /\ substate = "IK"
    /\ frames > switches

\* C30: from render_circles = render_polygons = true, after any sequence of
\* frames in which Digit1 and / or Digit2 are pressed (both in one frame
\* included), at least one of render_circles and render_polygons is true.
C30_OneLayerStaysOn ==
    renderer.render_circles \/ renderer.render_polygons

\* the circles have been turned off, and frames have passed
C30_Witness ==
    /\ frames >= 2
    /\ ~renderer.render_circles
    /\ renderer.render_polygons

\* the creature's update has run in the last frame
CreatureUpdateDone == substate = "Creature" /\ seen # <<>>

\* the target CreatureLimb::update aims a limb at from its root
ReAimed(limb, limb_root) ==
    VAdd(limb_root.pos,
         Scaled(from_angle(limb_root.rotation + limb.limb_reach_angle), limb.limb_reach_range))

\* C28: CreatureLimb::update re-aims the limb target exactly when fabrik
\* reports failure: on false the target becomes limb_root_pos +
\* unit_vector(limb_root_rot + limb_reach_angle) * limb_reach_range, from the
\* limb root's pose read before the solve; on true the target is left as it was.
C28_ReAimsExactlyOnFailure ==
    CreatureUpdateDone =>
        \A i \in 1..Len(seen.solves) :
            LET solve == seen.solves[i]
                limb_root == solve.before[solve.given.ik.nodes[1]]
            IN  /\ solve.ret = fabrik(solve.before, solve.given.ik).ret
                /\ solve.left = limbs[solve.limb]
                /\ solve.left =
                       [solve.given EXCEPT !.ik.target =
                            IF solve.ret THEN @ ELSE ReAimed(solve.given, limb_root)]

\* in one frame a limb reached its target and kept it, and another failed
\* and was aimed somewhere else
C28_Witness ==
    /\ CreatureUpdateDone
    /\ \E i \in 1..Len(seen.solves) :
           /\ seen.solves[i].ret
           /\ seen.solves[i].left.ik.target = seen.solves[i].given.ik.target
    /\ \E i \in 1..Len(seen.solves) :
           /\ ~seen.solves[i].ret
           /\ seen.solves[i].left.ik.target # seen.solves[i].given.ik.target

\* position and rotation of the body's nodes in a store
BodyPose(ns) == [i \in 1..Len(fk.nodes) |-> <<ns[fk.nodes[i]].pos, ns[fk.nodes[i]].rotation>>]

\* orders the four limbs could be solved in, other than the one the code has
OtherLimbOrders == {<<4, 3, 2, 1>>, <<2, 1, 4, 3>>}

\* C29: in the creature scene each limb chain's root is a node of the body
\* chain and its anchor is None; after CreatureSubstate::update has run
\* process_fk on the body, the four limb solves leave the position and
\* rotation of every body node unchanged, so the body pose does not depend on
\* the order in which the limbs are solved or on whether they converge.
C29_LimbSolvesLeaveTheBody ==
    CreatureUpdateDone =>
        /\ \A k \in 1..Len(limbs) :
               /\ limbs[k].ik.nodes[1] \in SeqRange(fk.nodes)
               /\ limbs[k].ik.anchor = None
        /\ BodyPose(nodes) = BodyPose(seen.after_body)
        /\ \A order \in OtherLimbOrders :
               BodyPose(CreatureUpdatedInOrder(seen.before, seen.body, seen.limbs,
                                               seen.mouse_pos, order).nodes)
                   = BodyPose(nodes)

\* a frame that moved the body and in which limbs were moved by solves that
\* reached their targets and by solves that did not
C29_Witness ==
    /\ CreatureUpdateDone
    /\ BodyPose(seen.after_body) # BodyPose(seen.before)
    /\ \E i, j \in 1..Len(seen.solves) :
           /\ seen.solves[i].ret
           /\ ~seen.solves[j].ret
           /\ \E id \in SeqRange(Tail(seen.solves[i].given.ik.nodes)) :
                  nodes[id].pos # seen.after_body[id].pos
           /\ \E id \in SeqRange(Tail(seen.solves[j].given.ik.nodes)) :
                  nodes[id].pos # seen.after_body[id].pos

====
